---- MODULE Spec2Model ----
(***************************************************************************)
(* Matchmaking and match lifecycle of rlcompetition:                       *)
(*   MatchmakingThread   (matchmaking/MatchmakingServer.py, 103-210)       *)
(*   MatchProcessJanitor (matchmaking/MatchmakingServer.py, 64-100)        *)
(*   client_app, ClientNetworkEnv (client_network_env.py)                  *)
(* The matchmaker thread and the janitor threads share the match-limit     *)
(* semaphore, the free-port queue, the ranking database and each janitor's *)
(* ready event.  Every action below is one step of one thread between two  *)
(* accesses to those shared objects.                                       *)
(***************************************************************************)
EXTENDS Integers, Sequences, FiniteSets, TLC

(* ------------------------------ bounds -------------------------------- *)
\* requests received over one run of the matchmaker
MaxRequests == 3
\* largest max_simultaneous_games the matchmaker is constructed with
MaxGames == 2
\* largest env.min_players the matchmaker is constructed with
MaxPlayers == 2
\* largest number of actions after which the environment of a match is
\* terminal
GameLength == 2

(* ------------------------- program constants --------------------------- *)
\* start_matchmaking_server(game_port = 21450)
StartingPort == 21450
\* start_matchmaking_server(hostname = 'localhost')
Hostname == "localhost"
\* ranking a user row is created with (RankingDatabase.set)
DefaultRanking == 1000

(* ------------------------------ inputs --------------------------------- *)
\* request.username: the matchmaker takes it as sent (line 159)
Usernames == {"ann", "Ann", "bob"}
\* request.password: the hash the client sent
Passwords == {"h1", "h2"}
\* the (username, password) pairs clients send
Credentials == {<<"ann", "h1">>, <<"ann", "h2">>, <<"Ann", "h1">>,
                <<"bob", "h1">>}
\* ports of the probed range that another process occupies at startup
InUseChoices == {{}, {StartingPort}}
\* the actions a caller passes to ClientNetworkEnv.step
Actions == {"a", "b"}

VARIABLES
    players_per_game,   \* self.players_per_game
    max_games,          \* max_simultaneous_games
    in_use,             \* ports for which is_port_in_use(port) held at startup
    match_limit,        \* value of the Semaphore self.match_limit
    ports_to_use,       \* self.ports_to_use, a FIFO Queue
    database,           \* RankingDatabase rows, by username
    match_requests,     \* the deque of MatchmakingThread.run
    pc,                 \* where MatchmakingThread.run stands
    login_result,       \* local login_result of the last request
    new_players,        \* local new_players (the cohort)
    match_janitor,      \* local match_janitor: index into janitors, 0 = none
    next_identity,      \* identity of the next request received
    next_token,         \* number of the next secrets.token_hex(32) call
    janitors,           \* every MatchProcessJanitor started, in start order
    replies,            \* replies[identity]: what send_multipart sent there
    issued,             \* issued[identity]: the tuple appended at line 179
    next_port,          \* loop variable port of __init__: the next to probe
    server,             \* the match server of one match: phase, seat, env
    dataframe,          \* the records of that match server's dataframe
    client              \* client[c]: one ClientNetworkEnv and its client_app

\* one match seen from its clients
match_side == <<server, dataframe, client>>

\* what no step of MatchmakingThread.run or MatchProcessJanitor.run touches
outside == <<next_port, match_side>>

\* what no step of a client or of the match server's play touches
matchmaker_side ==
    <<players_per_game, max_games, in_use, match_limit, ports_to_use,
      database, match_requests, pc, login_result, new_players,
      match_janitor, next_identity, next_token, janitors, replies,
      issued, next_port>>

vars == <<players_per_game, max_games, in_use, match_limit, ports_to_use,
          database, match_requests, pc, login_result, new_players,
          match_janitor, next_identity, next_token, janitors, replies,
          issued, outside>>

(* ---------------------- MatchmakingThread.__init__ --------------------- *)
\* range(starting_port, max_port), kept when not is_port_in_use(port)
RECURSIVE ProbePorts(_, _, _)
ProbePorts(port, max_port, used) ==
    IF port >= max_port THEN <<>>
    ELSE IF port \notin used
         THEN <<port>> \o ProbePorts(port + 1, max_port, used)
         ELSE ProbePorts(port + 1, max_port, used)

\* a player record that is not in the dataframe; number = -1 until the
\* game starts
NoPlayer ==
    [present |-> FALSE, number |-> -1, turn |-> FALSE, action |-> "",
     ready_for_action_to_be_taken |-> FALSE,
     acknowledges_game_over |-> FALSE, reward_from_last_turn |-> 0,
     observation |-> <<>>]

\* pickle.dumps of a list of seat indices, and pickle.loads of such bytes
Dumps(list) == [pickled |-> list]
Loads(bytes) == [some |-> TRUE, list |-> bytes.pickled]
None == [some |-> FALSE, list |-> <<>>]

\* no match is looked at: the clients and the play of a match server are
\* outside the matchmaker's and the janitors' steps
NoMatch ==
    /\ server = [phase |-> "none", seat |-> 0, state |-> <<>>, length |-> 0]
    /\ dataframe = [players |-> <<>>, terminal |-> FALSE,
                    winners |-> Dumps(<<>>)]
    /\ client = <<>>

NoRow == [exists |-> FALSE, password |-> "", ranking |-> 0, logged_in |-> FALSE]

\* no tuple was appended for this identity
NoRequest == [identity |-> 0, username |-> "", token |-> ""]

Init ==
    \E mg \in 1..MaxGames, ppg \in 1..MaxPlayers, used \in InUseChoices :
        LET queue == ProbePorts(StartingPort, StartingPort + 2 * mg, used) IN
        /\ players_per_game = ppg
        /\ max_games = mg
        /\ in_use = used
        /\ match_limit = mg
        /\ ports_to_use = queue
        /\ database = [u \in Usernames |-> NoRow]
        /\ match_requests = <<>>
        /\ pc = IF Len(queue) < mg THEN "OSError" ELSE "recv"
        /\ login_result = "none"
        /\ new_players = <<>>
        /\ match_janitor = 0
        /\ next_identity = 1
        /\ next_token = 1
        /\ janitors = <<>>
        /\ replies = [i \in 1..MaxRequests |-> <<>>]
        /\ issued = [i \in 1..MaxRequests |-> NoRequest]
        /\ next_port = StartingPort + 2 * mg
        /\ NoMatch

\* the matchmaker constructed on a machine where other processes occupy
\* the lower half of the probed range, so that exactly max_games ports
\* are free and the queue is empty whenever max_games matches run
ScarceInit ==
    \E mg \in 1..MaxGames, ppg \in 1..MaxPlayers :
        LET used == StartingPort .. StartingPort + mg - 1
            queue == ProbePorts(StartingPort, StartingPort + 2 * mg, used) IN
        /\ players_per_game = ppg
        /\ max_games = mg
        /\ in_use = used
        /\ match_limit = mg
        /\ ports_to_use = queue
        /\ database = [u \in Usernames |-> NoRow]
        /\ match_requests = <<>>
        /\ pc = IF Len(queue) < mg THEN "OSError" ELSE "recv"
        /\ login_result = "none"
        /\ new_players = <<>>
        /\ match_janitor = 0
        /\ next_identity = 1
        /\ next_token = 1
        /\ janitors = <<>>
        /\ replies = [i \in 1..MaxRequests |-> <<>>]
        /\ issued = [i \in 1..MaxRequests |-> NoRequest]
        /\ next_port = StartingPort + 2 * mg
        /\ NoMatch

\* the probed range(starting_port, max_port) for max_simultaneous_games = mg
ProbedRange(mg) == StartingPort .. StartingPort + 2 * mg - 1

\* __init__ up to line 136, before the first port is probed; any ports of
\* the range may be occupied
StartupInit ==
    \E mg \in 1..MaxGames, ppg \in 1..MaxPlayers :
      \E used \in SUBSET ProbedRange(mg) :
        /\ players_per_game = ppg
        /\ max_games = mg
        /\ in_use = used
        /\ match_limit = mg
        /\ ports_to_use = <<>>
        /\ database = [u \in Usernames |-> NoRow]
        /\ match_requests = <<>>
        /\ pc = "probe"
        /\ login_result = "none"
        /\ new_players = <<>>
        /\ match_janitor = 0
        /\ next_identity = 1
        /\ next_token = 1
        /\ janitors = <<>>
        /\ replies = [i \in 1..MaxRequests |-> <<>>]
        /\ issued = [i \in 1..MaxRequests |-> NoRequest]
        /\ next_port = StartingPort
        /\ NoMatch

\* mutant of ProbePort: the port is queued without is_port_in_use
ProbePortUnchecked ==
    /\ pc = "probe"
    /\ next_port < StartingPort + 2 * max_games
    /\ ports_to_use' = Append(ports_to_use, next_port)
    /\ next_port' = next_port + 1
    /\ UNCHANGED <<players_per_game, max_games, in_use, match_limit, database,
                   match_requests, pc, login_result, new_players,
                   match_janitor, next_identity, next_token, janitors,
                   replies, issued, match_side>>

\* lines 138-142: one turn of the loop over range(starting_port, max_port)
ProbePort ==
    /\ pc = "probe"
    /\ next_port < StartingPort + 2 * max_games
    /\ ports_to_use' = IF next_port \notin in_use
                       THEN Append(ports_to_use, next_port)
                       ELSE ports_to_use
    /\ next_port' = next_port + 1
    /\ UNCHANGED <<players_per_game, max_games, in_use, match_limit, database,
                   match_requests, pc, login_result, new_players,
                   match_janitor, next_identity, next_token, janitors,
                   replies, issued, match_side>>

\* lines 144-148: after the loop, raise OSError or finish construction
CheckPorts ==
    /\ pc = "probe"
    /\ next_port >= StartingPort + 2 * max_games
    /\ pc' = IF Len(ports_to_use) < max_games THEN "OSError" ELSE "recv"
    /\ UNCHANGED <<players_per_game, max_games, in_use, match_limit,
                   ports_to_use, database, match_requests, login_result,
                   new_players, match_janitor, next_identity, next_token,
                   janitors, replies, issued, next_port, match_side>>

StartupNext ==
    \/ ProbePort
    \/ CheckPorts

StartupSpec == StartupInit /\ [][StartupNext]_vars

(* --------------------------- RankingDatabase --------------------------- *)
\* login: the results a call may return for this row and password
LoginResults(db, username, password) ==
    IF ~db[username].exists THEN {"NoUser"}
    ELSE IF db[username].password # password /\ db[username].logged_in
         THEN {"LoginFail", "LoginDuplicate"}
    ELSE IF db[username].password # password THEN {"LoginFail"}
    ELSE IF db[username].logged_in THEN {"LoginDuplicate"}
    ELSE {"Success"}

\* login: the rows after a call that returned result
Login(db, username, result) ==
    IF result = "Success"
    THEN [db EXCEPT ![username].logged_in = TRUE]
    ELSE db

\* set: insert the user logged out with the default ranking
Set(db, username, password) ==
    IF db[username].exists THEN db
    ELSE [db EXCEPT ![username] = [exists |-> TRUE, password |-> password,
                                   ranking |-> DefaultRanking,
                                   logged_in |-> FALSE]]

Logoff(db, username) == [db EXCEPT ![username].logged_in = FALSE]

(* ------------------------ MatchmakingThread.run ------------------------ *)
\* mutant of FailResponse: the reason of one branch copied into the other
FailResponseCopied(result) == "Failed to login: Wrong password."

FailResponse(result) ==
    IF result = "LoginDuplicate"
    THEN "Failed to login: Cannot login twice at the same time."
    ELSE "Failed to login: Wrong password."

\* lines 167-168 and 173-174
QuickMatchFail(username, result) ==
    [username |-> username, server |-> "FAIL", auth_key |-> "FAIL",
     ranking |-> 0, response |-> FailResponse(result)]

\* lines 204-208; database_entries was read at line 199 and no ranking
\* changes after set()
QuickMatchReply(player, match_port) ==
    [username |-> player.username,
     server |-> Hostname \o ":" \o ToString(match_port),
     auth_key |-> player.token,
     ranking |-> database[player.username].ranking,
     response |-> ""]

\* line 179: secrets.token_hex(32), a string no earlier call returned
TokenHex(n) == "token" \o ToString(n)

\* mutant of RejectLogin: the continue is missing, so the request is
\* appended after its FAIL reply
RejectLoginNoContinue(identity, username, result) ==
    LET entry == [identity |-> identity, username |-> username,
                  token |-> TokenHex(next_token)]
    IN  /\ replies' = [replies EXCEPT
                         ![identity] = Append(@, QuickMatchFail(username, result))]
        /\ match_requests' = Append(match_requests, entry)
        /\ issued' = [issued EXCEPT ![identity] = entry]
        /\ next_token' = next_token + 1
        /\ pc' = IF Len(match_requests') >= players_per_game
                 THEN "acquire" ELSE "recv"
        /\ UNCHANGED database

\* lines 166-176: answer FAIL and continue
RejectLogin(identity, username, result) ==
    /\ replies' = [replies EXCEPT
                     ![identity] = Append(@, QuickMatchFail(username, result))]
    /\ pc' = "recv"
    /\ UNCHANGED <<database, match_requests, next_token, issued>>

\* mutant of AcceptLogin: line 182 tests len(match_requests) > players_per_game
AcceptLoginLate(identity, username, password, result) ==
    LET created == Set(database, username, password)
        again == CHOOSE r \in LoginResults(created, username, password) : TRUE
        entry == [identity |-> identity, username |-> username,
                  token |-> TokenHex(next_token)]
    IN  /\ database' = IF result = "NoUser"
                       THEN Login(created, username, again)
                       ELSE Login(database, username, result)
        /\ match_requests' = Append(match_requests, entry)
        /\ issued' = [issued EXCEPT ![identity] = entry]
        /\ next_token' = next_token + 1
        /\ pc' = IF Len(match_requests') > players_per_game
                 THEN "acquire" ELSE "recv"
        /\ UNCHANGED replies

\* lines 162-164 and 179-182: create the user if needed, append the request
\* with a fresh token, and go on to a match when the deque is long enough
AcceptLogin(identity, username, password, result) ==
    LET created == Set(database, username, password)
        again == CHOOSE r \in LoginResults(created, username, password) : TRUE
        entry == [identity |-> identity, username |-> username,
                  token |-> TokenHex(next_token)]
    IN  /\ database' = IF result = "NoUser"
                       THEN Login(created, username, again)
                       ELSE Login(database, username, result)
        /\ match_requests' = Append(match_requests, entry)
        /\ issued' = [issued EXCEPT ![identity] = entry]
        /\ next_token' = next_token + 1
        /\ pc' = IF Len(match_requests') >= players_per_game
                 THEN "acquire" ELSE "recv"
        /\ UNCHANGED replies

\* lines 155-182: one request from recv_multipart to the end of the login
MatchmakerReceive ==
    /\ pc = "recv"
    /\ next_identity <= MaxRequests
    /\ \E username \in Usernames, password \in Passwords :
         /\ <<username, password>> \in Credentials
         /\ \E result \in LoginResults(database, username, password) :
            /\ login_result' = result
            /\ IF result \in {"LoginDuplicate", "LoginFail"}
               THEN RejectLogin(next_identity, username, result)
               ELSE AcceptLogin(next_identity, username, password, result)
    /\ next_identity' = next_identity + 1
    /\ UNCHANGED <<outside, players_per_game, max_games, in_use, match_limit,
                   ports_to_use, new_players, match_janitor, janitors>>

\* line 184: [match_requests.pop() for _ in range(n)]
PopCohort(requests, n) ==
    [i \in 1..n |-> requests[Len(requests) - i + 1]]

\* what line 184 leaves in the deque
AfterPop(requests, n) == SubSeq(requests, 1, Len(requests) - n)

\* line 185
Whitelist(players) == [i \in 1..Len(players) |-> players[i].token]

\* line 186
PlayerList(players) == [i \in 1..Len(players) |-> players[i].username]

\* mutant of MatchmakerAcquire: the cohort is popped without acquire()
MatchmakerAcquireNoLimit ==
    /\ pc = "acquire"
    /\ new_players' = PopCohort(match_requests, players_per_game)
    /\ match_requests' = AfterPop(match_requests, players_per_game)
    /\ pc' = "get_port"
    /\ UNCHANGED <<outside, players_per_game, max_games, in_use, match_limit,
                   ports_to_use, database, login_result, match_janitor,
                   next_identity, next_token, janitors, replies, issued>>

\* lines 183-186: take a unit of the semaphore (blocks at zero), then pop
MatchmakerAcquire ==
    /\ pc = "acquire"
    /\ match_limit > 0
    /\ match_limit' = match_limit - 1
    /\ new_players' = PopCohort(match_requests, players_per_game)
    /\ match_requests' = AfterPop(match_requests, players_per_game)
    /\ pc' = "get_port"
    /\ UNCHANGED <<outside, players_per_game, max_games, in_use, ports_to_use, database,
                   login_result, match_janitor, next_identity, next_token,
                   janitors, replies, issued>>

\* lines 68-84: MatchProcessJanitor.__init__
NewJanitor(port, player_list, whitelist) ==
    [port |-> port, player_list |-> player_list, whitelist |-> whitelist,
     ready |-> FALSE, state |-> "start",
     port_puts |-> 0, logoffs |-> 0, releases |-> 0]

\* mutant of MatchmakerStartJanitor: the port is read from the head of the
\* queue and left there
MatchmakerStartJanitorPeek ==
    /\ pc = "get_port"
    /\ ports_to_use # <<>>
    /\ janitors' = Append(janitors,
                          NewJanitor(Head(ports_to_use),
                                     PlayerList(new_players),
                                     Whitelist(new_players)))
    /\ match_janitor' = Len(janitors) + 1
    /\ pc' = "wait_ready"
    /\ UNCHANGED <<outside, players_per_game, max_games, in_use, match_limit,
                   ports_to_use, database, match_requests, login_result,
                   new_players, next_identity, next_token, replies, issued>>

\* lines 188-197: Queue.get (blocks when empty), construct and start
MatchmakerStartJanitor ==
    /\ pc = "get_port"
    /\ ports_to_use # <<>>
    /\ ports_to_use' = Tail(ports_to_use)
    /\ janitors' = Append(janitors,
                          NewJanitor(Head(ports_to_use),
                                     PlayerList(new_players),
                                     Whitelist(new_players)))
    /\ match_janitor' = Len(janitors) + 1
    /\ pc' = "wait_ready"
    /\ UNCHANGED <<outside, players_per_game, max_games, in_use, match_limit, database,
                   match_requests, login_result, new_players, next_identity,
                   next_token, replies, issued>>

\* mutant of MatchmakerWaitReady: the wait on the ready event is skipped
MatchmakerNoWait ==
    /\ pc = "wait_ready"
    /\ pc' = "reply"
    /\ UNCHANGED <<outside, players_per_game, max_games, in_use, match_limit,
                   ports_to_use, database, match_requests, login_result,
                   new_players, match_janitor, next_identity, next_token,
                   janitors, replies, issued>>

\* line 201: match_janitor.ready.wait()
MatchmakerWaitReady ==
    /\ pc = "wait_ready"
    /\ janitors[match_janitor].ready
    /\ pc' = "reply"
    /\ UNCHANGED <<outside, players_per_game, max_games, in_use, match_limit,
                   ports_to_use, database, match_requests, login_result,
                   new_players, match_janitor, next_identity, next_token,
                   janitors, replies, issued>>

\* mutant of SendReplies: every member is sent the first member's auth_key
SendRepliesFirstToken(sent, players, match_port) ==
    [i \in DOMAIN sent |->
        IF \E k \in DOMAIN players : players[k].identity = i
        THEN LET k == CHOOSE k \in DOMAIN players : players[k].identity = i
             IN  Append(sent[i],
                        [QuickMatchReply(players[k], match_port)
                            EXCEPT !.auth_key = players[1].token])
        ELSE sent[i]]

\* lines 203-210: the replies of the loop over new_players
SendReplies(sent, players, match_port) ==
    [i \in DOMAIN sent |->
        IF \E k \in DOMAIN players : players[k].identity = i
        THEN LET k == CHOOSE k \in DOMAIN players : players[k].identity = i
             IN  Append(sent[i], QuickMatchReply(players[k], match_port))
        ELSE sent[i]]

\* lines 203-210, then back to recv_multipart
MatchmakerReply ==
    /\ pc = "reply"
    /\ replies' = SendReplies(replies, new_players,
                              janitors[match_janitor].port)
    /\ new_players' = <<>>
    /\ pc' = "recv"
    /\ UNCHANGED <<outside, players_per_game, max_games, in_use, match_limit,
                   ports_to_use, database, match_requests, login_result,
                   match_janitor, next_identity, next_token, janitors, issued>>

(* ------------------------------ match server --------------------------- *)
\* Phase A opens: the match server sets the ready event it was handed
ServerReady(j) ==
    /\ janitors[j].state = "start"
    /\ janitors' = [janitors EXCEPT ![j].ready = TRUE,
                                    ![j].state = "serving"]
    /\ UNCHANGED <<outside, players_per_game, max_games, in_use, match_limit,
                   ports_to_use, database, match_requests, pc,
                   login_result, new_players, match_janitor,
                   next_identity, next_token, replies, issued>>

\* Phase C: the match server returns and app.start (line 92) with it
ServerExit(j) ==
    /\ janitors[j].state = "serving"
    /\ janitors' = [janitors EXCEPT ![j].state = "put_port"]
    /\ UNCHANGED <<outside, players_per_game, max_games, in_use, match_limit,
                   ports_to_use, database, match_requests, pc,
                   login_result, new_players, match_janitor,
                   next_identity, next_token, replies, issued>>

\* the port cannot be bound: the match aborts before ready with an
\* exception
ServerBindFail(j) ==
    /\ janitors[j].state = "start"
    /\ janitors' = [janitors EXCEPT ![j].state = "bind_failed"]
    /\ UNCHANGED <<outside, players_per_game, max_games, in_use, match_limit,
                   ports_to_use, database, match_requests, pc,
                   login_result, new_players, match_janitor,
                   next_identity, next_token, replies, issued>>

(* ----------------------- MatchProcessJanitor.run ----------------------- *)
\* lines 91-92: an exception of Node(...) or app.start(...) is caught
\* nowhere in run, so run ends there and lines 93-100 are not reached
JanitorRaise(j) ==
    /\ janitors[j].state = "bind_failed"
    /\ janitors' = [janitors EXCEPT ![j].state = "raised"]
    /\ UNCHANGED <<outside, players_per_game, max_games, in_use, match_limit,
                   ports_to_use, database, match_requests, pc,
                   login_result, new_players, match_janitor,
                   next_identity, next_token, replies, issued>>

\* mutant of JanitorPutPort: the cleanup goes on without putting the port
\* back into the queue
JanitorPutPortForgot(j) ==
    /\ janitors[j].state = "put_port"
    /\ janitors' = [janitors EXCEPT ![j].port_puts = @ + 1,
                                    ![j].state = "logoff"]
    /\ UNCHANGED <<outside, players_per_game, max_games, in_use, match_limit,
                   ports_to_use, database, match_requests, pc, login_result,
                   new_players, match_janitor, next_identity, next_token,
                   replies, issued>>

\* line 96
JanitorPutPort(j) ==
    /\ janitors[j].state = "put_port"
    /\ ports_to_use' = Append(ports_to_use, janitors[j].port)
    /\ janitors' = [janitors EXCEPT ![j].port_puts = @ + 1,
                                    ![j].state = "logoff"]
    /\ UNCHANGED <<outside, players_per_game, max_games, in_use, match_limit,
                   database, match_requests, pc, login_result,
                   new_players, match_janitor, next_identity, next_token,
                   replies, issued>>

\* mutant of JanitorLogoff: the loop over player_list ends after its first
\* turn
JanitorLogoffOnce(j) ==
    /\ janitors[j].state = "logoff"
    /\ database' = Logoff(database,
                          janitors[j].player_list[janitors[j].logoffs + 1])
    /\ janitors' = [janitors EXCEPT ![j].logoffs = @ + 1,
                                    ![j].state = "release"]
    /\ UNCHANGED <<outside, players_per_game, max_games, in_use, match_limit,
                   ports_to_use, match_requests, pc, login_result,
                   new_players, match_janitor, next_identity, next_token,
                   replies, issued>>

\* lines 97-98: one turn of the loop over player_list
JanitorLogoff(j) ==
    /\ janitors[j].state = "logoff"
    /\ database' = Logoff(database,
                          janitors[j].player_list[janitors[j].logoffs + 1])
    /\ janitors' = [janitors EXCEPT
                      ![j].logoffs = @ + 1,
                      ![j].state =
                          IF janitors[j].logoffs + 1
                               >= Len(janitors[j].player_list)
                          THEN "release" ELSE "logoff"]
    /\ UNCHANGED <<outside, players_per_game, max_games, in_use, match_limit,
                   ports_to_use, match_requests, pc, login_result,
                   new_players, match_janitor, next_identity, next_token,
                   replies, issued>>

\* line 100
JanitorRelease(j) ==
    /\ janitors[j].state = "release"
    /\ match_limit' = match_limit + 1
    /\ janitors' = [janitors EXCEPT ![j].releases = @ + 1,
                                    ![j].state = "done"]
    /\ UNCHANGED <<outside, players_per_game, max_games, in_use, ports_to_use,
                   database, match_requests, pc, login_result,
                   new_players, match_janitor, next_identity, next_token,
                   replies, issued>>

(* ---------------------------- specifications --------------------------- *)
Next ==
    \/ MatchmakerReceive
    \/ MatchmakerAcquire
    \/ MatchmakerStartJanitor
    \/ MatchmakerWaitReady
    \/ MatchmakerReply
    \/ \E j \in DOMAIN janitors : ServerReady(j)
    \/ \E j \in DOMAIN janitors : ServerExit(j)
    \/ \E j \in DOMAIN janitors : ServerBindFail(j)
    \/ \E j \in DOMAIN janitors : JanitorRaise(j)
    \/ \E j \in DOMAIN janitors : JanitorPutPort(j)
    \/ \E j \in DOMAIN janitors : JanitorLogoff(j)
    \/ \E j \in DOMAIN janitors : JanitorRelease(j)

Spec == Init /\ [][Next]_vars

\* the same threads when free ports are scarce
ScarceSpec == ScarceInit /\ [][Next]_vars

\* Threads are scheduled fairly: a step of the matchmaker thread or of a
\* janitor thread that stays possible is taken.  A match server that is
\* starting comes to an end of its startup, and one that is serving ends.
Fairness ==
    /\ WF_vars(MatchmakerAcquire)
    /\ WF_vars(MatchmakerStartJanitor)
    /\ WF_vars(MatchmakerWaitReady)
    /\ WF_vars(MatchmakerReply)
    /\ \A j \in 1..MaxRequests :
          /\ WF_vars(j \in DOMAIN janitors /\ ServerReady(j))
          /\ WF_vars(j \in DOMAIN janitors /\ ServerExit(j))
          /\ WF_vars(j \in DOMAIN janitors /\ JanitorRaise(j))
          /\ WF_vars(j \in DOMAIN janitors /\ JanitorPutPort(j))
          /\ WF_vars(j \in DOMAIN janitors /\ JanitorLogoff(j))
          /\ WF_vars(j \in DOMAIN janitors /\ JanitorRelease(j))

FairSpec == Spec /\ Fairness

(* ------------------------------ client_app ----------------------------- *)
\* what a caller's ClientNetworkEnv and its client_app start with
NewClient ==
    [pc |-> "join", player |-> NoPlayer, terminal |-> FALSE,
     winners |-> Dumps(<<>>), caller |-> "init", cmd |-> <<>>, res |-> <<>>,
     result |-> [kind |-> "none"], first_observation |-> [kind |-> "none"],
     returned |-> [kind |-> "none"], steps |-> 0, open |-> TRUE]

\* dataframe.pull(); dataframe.checkout(): the client's copy of its player
\* record and of the ServerState record becomes the dataframe's
Pulled(c) ==
    [client[c] EXCEPT !.player = dataframe.players[c],
                      !.terminal = dataframe.terminal,
                      !.winners = dataframe.winners]

\* line 61: the dictionary of the observation dimensions
FirstObservation(player) ==
    [kind |-> "observation", observation |-> player.observation]

\* mutant of Started: the loop on turn of lines 55-59 is missing
StartedWithoutTurn(cl) ==
    IF cl.player.number = -1 THEN [cl EXCEPT !.pc = "wait_start"]
    ELSE [cl EXCEPT !.pc = "recv",
                    !.res = Append(@, FirstObservation(cl.player))]

\* lines 47-61 after a checkout: stay in the loop on number, or in the loop
\* on turn, or send the first observation and go on to remote.recv()
Started(cl) ==
    IF cl.player.number = -1 THEN [cl EXCEPT !.pc = "wait_start"]
    ELSE IF ~cl.player.turn THEN [cl EXCEPT !.pc = "wait_turn"]
    ELSE [cl EXCEPT !.pc = "recv",
                    !.res = Append(@, FirstObservation(cl.player))]

\* lines 26-33: add the player record, commit and push
ClientJoin(c) ==
    /\ client[c].pc = "join"
    /\ dataframe' = [dataframe EXCEPT
                       !.players[c] = [NoPlayer EXCEPT !.present = TRUE]]
    /\ client' = [client EXCEPT
                    ![c] = [Pulled(c) EXCEPT
                              !.player = [NoPlayer EXCEPT !.present = TRUE],
                              !.pc = "check"]]
    /\ UNCHANGED <<server, matchmaker_side>>

\* lines 36-45 and the first test of the loops of lines 47 and 55
ClientCheck(c) ==
    /\ client[c].pc = "check"
    /\ client' = [client EXCEPT
                    ![c] = IF dataframe.players[c].present
                           THEN Started(Pulled(c))
                           ELSE [Pulled(c) EXCEPT !.pc = "exited"]]
    /\ UNCHANGED <<server, dataframe, matchmaker_side>>

\* lines 47-61: one turn of the loop on number or of the loop on turn
ClientWait(c) ==
    /\ client[c].pc \in {"wait_start", "wait_turn"}
    /\ client' = [client EXCEPT ![c] = Started(Pulled(c))]
    /\ UNCHANGED <<server, dataframe, matchmaker_side>>

\* mutant of Waiting: the loop of line 79 looks at turn only
WaitingForTurnOnly(player) == ~player.turn

\* line 79: the condition of the wait loop of step
Waiting(player) == ~player.turn \/ player.ready_for_action_to_be_taken

\* lines 66-79, cmd = 'step': unless the game is terminal, set the action
\* and ready_for_action_to_be_taken, commit and push, and enter the loop
ClientStep(c) ==
    /\ client[c].pc = "recv"
    /\ client[c].cmd # <<>>
    /\ Head(client[c].cmd).cmd = "step"
    /\ IF ~client[c].terminal
       THEN LET player == [client[c].player EXCEPT
                             !.action = Head(client[c].cmd).data,
                             !.ready_for_action_to_be_taken = TRUE]
            IN  /\ dataframe' =
                     [dataframe EXCEPT
                        !.players[c].action = player.action,
                        !.players[c].ready_for_action_to_be_taken = TRUE]
                /\ client' = [client EXCEPT
                                ![c].player = player,
                                ![c].steps = @ + 1,
                                ![c].cmd = Tail(@),
                                ![c].pc = IF Waiting(player)
                                          THEN "step_wait" ELSE "finish"]
       ELSE /\ client' = [client EXCEPT ![c].cmd = Tail(@),
                                        ![c].pc = "finish"]
            /\ UNCHANGED dataframe
    /\ UNCHANGED <<server, matchmaker_side>>

\* lines 79-83: one turn of the wait loop of step
ClientPoll(c) ==
    /\ client[c].pc = "step_wait"
    /\ client' = [client EXCEPT
                    ![c] = [Pulled(c) EXCEPT
                              !.pc = IF Waiting(dataframe.players[c])
                                     THEN "step_wait" ELSE "finish"]]
    /\ UNCHANGED <<server, dataframe, matchmaker_side>>

\* lines 85-96: the result of the call
StepResult(cl) ==
    [kind |-> "step", observation |-> cl.player.observation,
     reward |-> cl.player.reward_from_last_turn, terminal |-> cl.terminal,
     winners |-> IF cl.terminal THEN Loads(cl.winners) ELSE None]

\* mutant of ClientFinishStep: the acknowledgment is set on the client's
\* copy of the record and not pushed
ClientFinishStepNoPush(c) ==
    /\ client[c].pc = "finish"
    /\ client' = [client EXCEPT
                    ![c].result = StepResult(client[c]),
                    ![c].player.acknowledges_game_over =
                        IF client[c].terminal THEN TRUE ELSE @,
                    ![c].pc = "send"]
    /\ UNCHANGED <<server, dataframe, matchmaker_side>>

\* lines 85-98: build the result; on terminal set acknowledges_game_over,
\* commit and push, and go on to send; otherwise send the result at once
ClientFinishStep(c) ==
    /\ client[c].pc = "finish"
    /\ IF client[c].terminal
       THEN /\ client' = [client EXCEPT
                            ![c].result = StepResult(client[c]),
                            ![c].player.acknowledges_game_over = TRUE,
                            ![c].pc = "send"]
            /\ dataframe' = [dataframe EXCEPT
                               !.players[c].acknowledges_game_over = TRUE]
       ELSE /\ client' = [client EXCEPT
                            ![c].result = StepResult(client[c]),
                            ![c].res = Append(@, StepResult(client[c])),
                            ![c].pc = "recv"]
            /\ UNCHANGED dataframe
    /\ UNCHANGED <<server, matchmaker_side>>

\* line 98, after the push of the acknowledgment
ClientSendResult(c) ==
    /\ client[c].pc = "send"
    /\ client' = [client EXCEPT ![c].res = Append(@, client[c].result),
                                ![c].pc = "recv"]
    /\ UNCHANGED <<server, dataframe, matchmaker_side>>

\* lines 105-114, cmd = 'get_server_state': winners is sent as stored
ClientGetServerState(c) ==
    /\ client[c].pc = "recv"
    /\ client[c].cmd # <<>>
    /\ Head(client[c].cmd).cmd = "get_server_state"
    /\ client' = [client EXCEPT
                    ![c].cmd = Tail(@),
                    ![c].res = Append(@, [kind |-> "server_state",
                                          terminal |-> client[c].terminal,
                                          winners |-> client[c].winners])]
    /\ UNCHANGED <<server, dataframe, matchmaker_side>>

\* lines 100-103, cmd = 'close': the record is deleted from the client's
\* copy (no commit or push follows), the pipe end closed, the loop left
ClientClose(c) ==
    /\ client[c].pc = "recv"
    /\ client[c].cmd # <<>>
    /\ Head(client[c].cmd).cmd = "close"
    /\ client' = [client EXCEPT ![c].cmd = Tail(@),
                                ![c].player = NoPlayer,
                                ![c].open = FALSE,
                                ![c].pc = "closed"]
    /\ UNCHANGED <<server, dataframe, matchmaker_side>>

(* --------------------------- ClientNetworkEnv -------------------------- *)
\* self.remote.send((cmd, data)) of step, get_server_state and close
Send(c, cmd, data, caller) ==
    client' = [client EXCEPT
                 ![c].cmd = Append(@, [cmd |-> cmd, data |-> data]),
                 ![c].caller = caller]

\* line 171
CallerStep(c) ==
    /\ client[c].caller = "idle"
    /\ \E action \in Actions : Send(c, "step", action, "step")
    /\ UNCHANGED <<server, dataframe, matchmaker_side>>

\* line 175
CallerGetServerState(c) ==
    /\ client[c].caller = "idle"
    /\ Send(c, "get_server_state", "", "get_server_state")
    /\ UNCHANGED <<server, dataframe, matchmaker_side>>

\* lines 147, 172 and 176: self.remote.recv() of __init__, step and
\* get_server_state returns what client_app sent; __init__ keeps it in
\* self.first_observation, and returned is what step returned last
CallerRecv(c) ==
    /\ client[c].caller \in {"init", "step", "get_server_state"}
    /\ client[c].res # <<>>
    /\ client' = [client EXCEPT
                    ![c].first_observation =
                        IF client[c].caller = "init"
                        THEN Head(client[c].res) ELSE @,
                    ![c].returned =
                        IF client[c].caller = "step"
                        THEN Head(client[c].res) ELSE @,
                    ![c].res = Tail(@),
                    ![c].caller = "idle"]
    /\ UNCHANGED <<server, dataframe, matchmaker_side>>

\* line 150 of the first close()
CallerClose(c) ==
    /\ client[c].caller = "idle"
    /\ Send(c, "close", "", "join")
    /\ UNCHANGED <<server, dataframe, matchmaker_side>>

\* line 151: join() returns when client_app has returned
CallerJoin(c) ==
    /\ client[c].caller = "join"
    /\ client[c].pc = "closed"
    /\ client' = [client EXCEPT ![c].caller = "closed"]
    /\ UNCHANGED <<server, dataframe, matchmaker_side>>

\* line 150 of a close() after close() has returned: client_app, a thread
\* of the caller's process (line 23), has closed the other end of the pipe
\* at line 102, so send() raises BrokenPipeError out of close()
CallerCloseAgain(c) ==
    /\ client[c].caller = "closed"
    /\ ~client[c].open
    /\ client' = [client EXCEPT ![c].caller = "BrokenPipeError"]
    /\ UNCHANGED <<server, dataframe, matchmaker_side>>

(* -------------------------- match server: play ------------------------- *)
\* the clients whose record has a seat
Seated == {c \in DOMAIN dataframe.players : dataframe.players[c].number # -1}

\* the client sitting at seat k
PlayerAt(k) == CHOOSE c \in DOMAIN dataframe.players :
                   dataframe.players[c].number = k

\* next_player of an environment that cycles the seats 0..N-1
NextPlayer(state) == Len(state) % players_per_game

\* Phase A: a player record that appeared is given the next seat; when all
\* seats are filled Phase B begins
MatchAdmit ==
    /\ server.phase = "admit"
    /\ \E c \in DOMAIN dataframe.players :
         /\ dataframe.players[c].present
         /\ dataframe.players[c].number = -1
         /\ dataframe' = [dataframe EXCEPT
                            !.players[c].number = Cardinality(Seated)]
         /\ server' = [server EXCEPT
                         !.phase = IF Cardinality(Seated) + 1
                                        = players_per_game
                                   THEN "set_turn" ELSE "admit",
                         !.seat = NextPlayer(server.state)]
    /\ UNCHANGED <<client, matchmaker_side>>

\* Phase B, 1: turn = true for the current seat, commit
MatchSetTurn ==
    /\ server.phase = "set_turn"
    /\ dataframe' = [dataframe EXCEPT
                       !.players[PlayerAt(server.seat)].turn = TRUE]
    /\ server' = [server EXCEPT !.phase = "poll"]
    /\ UNCHANGED <<client, matchmaker_side>>

\* Phase B, 2 and 3: when the current seat's record is ready, take its
\* action, clear ready_for_action_to_be_taken and turn in one commit, and
\* step the environment, whose state is the list of the actions applied
MatchTakeAction ==
    LET c == PlayerAt(server.seat) IN
    /\ server.phase = "poll"
    /\ dataframe.players[c].ready_for_action_to_be_taken
    /\ dataframe' = [dataframe EXCEPT
                       !.players[c].ready_for_action_to_be_taken = FALSE,
                       !.players[c].turn = FALSE]
    /\ server' = [server EXCEPT
                    !.state = Append(@, <<server.seat,
                                          dataframe.players[c].action>>),
                    !.phase = "write"]
    /\ UNCHANGED <<client, matchmaker_side>>

\* Phase B, 4 and 6: write every seat's observation and reward, commit,
\* and advance to the next seat unless the environment is terminal
MatchWriteObservations ==
    /\ server.phase = "write"
    /\ dataframe' =
         [dataframe EXCEPT
            !.players = [c \in DOMAIN dataframe.players |->
                           [dataframe.players[c] EXCEPT
                              !.observation = server.state,
                              !.reward_from_last_turn =
                                  IF dataframe.players[c].number = server.seat
                                  THEN 1 ELSE 0]]]
    /\ server' = IF Len(server.state) >= server.length
                 THEN [server EXCEPT !.phase = "announce"]
                 ELSE [server EXCEPT !.phase = "set_turn",
                                     !.seat = NextPlayer(server.state)]
    /\ UNCHANGED <<client, matchmaker_side>>

\* Phase B, 5: write terminal and the serialized winners.  What the turn
\* flags are at that commit is left open: they stay as they are, or are
\* raised for every seat so that the steps of the clients return
MatchAnnounceTerminal ==
    /\ server.phase = "announce"
    /\ \E raise \in BOOLEAN :
         dataframe' =
           [dataframe EXCEPT
              !.terminal = TRUE,
              !.winners = Dumps(<<server.seat>>),
              !.players = [c \in DOMAIN dataframe.players |->
                             [dataframe.players[c] EXCEPT
                                !.turn = IF raise THEN TRUE ELSE @]]]
    /\ server' = [server EXCEPT !.phase = "wait_ack"]
    /\ UNCHANGED <<client, matchmaker_side>>

\* Phase B, 5: every player has acknowledged the end of the game; the
\* teardown that follows is ServerExit of the match's janitor
MatchAcknowledged ==
    /\ server.phase = "wait_ack"
    /\ \A c \in DOMAIN dataframe.players :
          dataframe.players[c].acknowledges_game_over
    /\ server' = [server EXCEPT !.phase = "acknowledged"]
    /\ UNCHANGED <<dataframe, client, matchmaker_side>>

\* a match server that has opened its admission, and the clients of its
\* cohort about to construct their ClientNetworkEnv
ClientInit ==
    \E ppg \in 1..MaxPlayers, length \in 1..GameLength :
        /\ server = [phase |-> "admit", seat |-> 0, state |-> <<>>,
                     length |-> length]
        /\ dataframe = [players |-> [c \in 1..ppg |-> NoPlayer],
                        terminal |-> FALSE, winners |-> Dumps(<<>>)]
        /\ client = [c \in 1..ppg |-> NewClient]
        /\ players_per_game = ppg
        /\ max_games = 1
        /\ in_use = {}
        /\ match_limit = 1
        /\ ports_to_use = ProbePorts(StartingPort, StartingPort + 2, {})
        /\ database = [u \in Usernames |-> NoRow]
        /\ match_requests = <<>>
        /\ pc = "recv"
        /\ login_result = "none"
        /\ new_players = <<>>
        /\ match_janitor = 0
        /\ next_identity = 1
        /\ next_token = 1
        /\ janitors = <<>>
        /\ replies = [i \in 1..MaxRequests |-> <<>>]
        /\ issued = [i \in 1..MaxRequests |-> NoRequest]
        /\ next_port = StartingPort + 2

ClientNext ==
    \/ \E c \in DOMAIN client : ClientJoin(c)
    \/ \E c \in DOMAIN client : ClientCheck(c)
    \/ \E c \in DOMAIN client : ClientWait(c)
    \/ \E c \in DOMAIN client : ClientStep(c)
    \/ \E c \in DOMAIN client : ClientPoll(c)
    \/ \E c \in DOMAIN client : ClientFinishStep(c)
    \/ \E c \in DOMAIN client : ClientSendResult(c)
    \/ \E c \in DOMAIN client : ClientGetServerState(c)
    \/ \E c \in DOMAIN client : ClientClose(c)
    \/ \E c \in DOMAIN client : CallerStep(c)
    \/ \E c \in DOMAIN client : CallerGetServerState(c)
    \/ \E c \in DOMAIN client : CallerRecv(c)
    \/ \E c \in DOMAIN client : CallerClose(c)
    \/ \E c \in DOMAIN client : CallerJoin(c)
    \/ \E c \in DOMAIN client : CallerCloseAgain(c)
    \/ MatchAdmit
    \/ MatchSetTurn
    \/ MatchTakeAction
    \/ MatchWriteObservations
    \/ MatchAnnounceTerminal
    \/ MatchAcknowledged

ClientSpec == ClientInit /\ [][ClientNext]_vars

\* The client_app threads, the callers blocked in recv() or join() and
\* the match server are scheduled fairly; nothing makes a caller call.
ClientFairness ==
    /\ WF_vars(MatchAdmit)
    /\ WF_vars(MatchSetTurn)
    /\ WF_vars(MatchTakeAction)
    /\ WF_vars(MatchWriteObservations)
    /\ WF_vars(MatchAnnounceTerminal)
    /\ WF_vars(MatchAcknowledged)
    /\ \A c \in 1..MaxPlayers :
          /\ WF_vars(c \in DOMAIN client /\ ClientJoin(c))
          /\ WF_vars(c \in DOMAIN client /\ ClientCheck(c))
          /\ WF_vars(c \in DOMAIN client /\ ClientWait(c))
          /\ WF_vars(c \in DOMAIN client /\ ClientStep(c))
          /\ WF_vars(c \in DOMAIN client /\ ClientPoll(c))
          /\ WF_vars(c \in DOMAIN client /\ ClientFinishStep(c))
          /\ WF_vars(c \in DOMAIN client /\ ClientSendResult(c))
          /\ WF_vars(c \in DOMAIN client /\ ClientGetServerState(c))
          /\ WF_vars(c \in DOMAIN client /\ ClientClose(c))
          /\ WF_vars(c \in DOMAIN client /\ CallerRecv(c))
          /\ WF_vars(c \in DOMAIN client /\ CallerJoin(c))

FairClientSpec == ClientSpec /\ ClientFairness

(* ------------------------- vocabulary of the claims -------------------- *)
Range(s) == {s[i] : i \in DOMAIN s}

Janitors == DOMAIN janitors

\* janitor j was started and has not released its semaphore slot
HoldsSlot(j) == janitors[j].releases = 0

\* janitor j has not returned its port to the free-port queue
HoldsPort(j) == janitors[j].port_puts = 0

\* MatchProcessJanitor.run of j has ended, by returning or by an exception
Terminated(j) == janitors[j].state \in {"done", "raised"}

\* the requests of the cohort janitor j was started for
Members(j) ==
    {i \in DOMAIN issued : issued[i].token \in Range(janitors[j].whitelist)}

\* the matchmaker has sent the replies of janitor j's cohort
Replied(j) == j < Len(janitors) \/ pc \notin {"wait_ready", "reply"}

ServerOf(j) == Hostname \o ":" \o ToString(janitors[j].port)

\* how often port p stands in the free-port queue
TimesQueued(p) ==
    Cardinality({i \in DOMAIN ports_to_use : ports_to_use[i] = p})

\* the matches that hold port p
Holders(p) == {j \in Janitors : HoldsPort(j) /\ janitors[j].port = p}

\* the ports the startup probe found free
ProbedFree ==
    {p \in StartingPort .. StartingPort + 2 * max_games - 1 : p \notin in_use}

\* places where username u waits or plays: entries of the deque, of the
\* cohort popped for a match about to start, and of the cohorts of started
\* matches up to the janitor's logoff of that entry
Places(u) ==
    {<<"deque", 0, i>> : i \in {i \in DOMAIN match_requests :
                                  match_requests[i].username = u}}
    \cup {<<"cohort", 0, k>> : k \in {k \in DOMAIN new_players :
                                  pc = "get_port"
                                  /\ new_players[k].username = u}}
    \cup UNION {{<<"match", j, k>> : k \in {k \in DOMAIN janitors[j].player_list :
                                  janitors[j].player_list[k] = u
                                  /\ k > janitors[j].logoffs}} : j \in Janitors}

\* the place of token t in the order of the token_hex calls of line 179,
\* which is the order in which the requests were appended to the deque
Arrival(t) == CHOOSE i \in DOMAIN issued : issued[i].token = t

\* str.lower() of MatchmakingClient.request_game, over Usernames
Lower(username) == IF username = "Ann" THEN "ann" ELSE username

\* the moves of seat k in an observation, which is the list of the moves
\* the environment has applied
OwnMoves(observation, k) ==
    {i \in DOMAIN observation : observation[i][1] = k}

\* how many actions of client c the match server has taken
Consumed(c) ==
    Cardinality(OwnMoves(server.state, dataframe.players[c].number))

\* the results of step calls of client c that client_app has built, sent
\* or handed to the caller
StepResults(c) ==
    {m \in Range(client[c].res) \cup {client[c].returned, client[c].result} :
        m.kind = "step"}

(* ------------------------------- claims -------------------------------- *)
\* C1: the matches started and not yet released by their janitor never
\* number more than max_games, and every one of them (and the one the
\* matchmaker is about to start) accounts for one acquired semaphore unit.
C1_MatchLimit ==
    LET live == {j \in Janitors : HoldsSlot(j)}
        acquired == IF pc = "get_port" THEN 1 ELSE 0
    IN  /\ Cardinality(live) <= max_games
        /\ Cardinality(live) + acquired + match_limit = max_games

C1_Witness ==
    /\ max_games = 2
    /\ match_limit = 0
    /\ Cardinality({j \in Janitors : HoldsSlot(j)}) = 2
    /\ pc = "acquire"

\* C2: every probed free port is either once in the free-port queue or held
\* by exactly one match whose janitor has not returned it, never both, and
\* nothing else is queued or held.
C2_PortInOnePlace ==
    /\ \A p \in ProbedFree : TimesQueued(p) + Cardinality(Holders(p)) = 1
    /\ Range(ports_to_use) \subseteq ProbedFree
    /\ \A j \in Janitors : janitors[j].port \in ProbedFree

C2_Witness ==
    \E j1, j2, j3 \in Janitors :
        /\ j1 # j2
        /\ HoldsPort(j1) /\ HoldsPort(j2)
        /\ janitors[j3].port_puts = 1
        /\ janitors[j3].port \in Range(ports_to_use)

\* C3: a username stands in at most one place of the deque and the cohorts
\* not yet logged off, and is logged in exactly when it stands in one.
C3_UsernameOnce ==
    \A u \in Usernames :
        /\ Cardinality(Places(u)) <= 1
        /\ database[u].logged_in <=> Places(u) # {}

C3_Witness ==
    /\ login_result = "LoginDuplicate"
    /\ \E j \in Janitors :
        /\ Len(janitors[j].player_list) = 2
        /\ janitors[j].logoffs = 1
        /\ ~database[janitors[j].player_list[1]].logged_in
        /\ database[janitors[j].player_list[2]].logged_in

\* C4: a success reply has been sent only to members of a match whose ready
\* event is set, and the matchmaker stands at the reply loop only with the
\* ready event of its janitor set.
C4_ReplyAfterReady ==
    /\ \A i \in DOMAIN replies : \A r \in Range(replies[i]) :
          r.server # "FAIL" =>
              \E j \in Janitors : i \in Members(j) /\ janitors[j].ready
    /\ pc = "reply" => janitors[match_janitor].ready

C4_Witness ==
    \E i \in DOMAIN replies :
        /\ replies[i] # <<>>
        /\ replies[i][1].server # "FAIL"
        /\ \E j \in Janitors : i \in Members(j) /\ janitors[j].state = "serving"

C6_FailLeavesState ==
    [][ (next_identity' = next_identity + 1
         /\ login_result' \in {"LoginDuplicate", "LoginFail"})
        => /\ Len(replies'[next_identity]) = 1
           /\ replies'[next_identity][1].server = "FAIL"
           /\ replies'[next_identity][1].response =
                 (IF login_result' = "LoginDuplicate"
                  THEN "Failed to login: Cannot login twice at the same time."
                  ELSE "Failed to login: Wrong password.")
           /\ \A i \in DOMAIN replies \ {next_identity} : replies'[i] = replies[i]
           /\ match_requests' = match_requests
           /\ match_limit' = match_limit
           /\ ports_to_use' = ports_to_use
           /\ \A u \in Usernames :
                 database'[u].logged_in = database[u].logged_in ]_vars

C6_Witness ==
    \E i1, i2 \in DOMAIN replies :
        /\ replies[i1] # <<>> /\ replies[i2] # <<>>
        /\ replies[i1][1].server = "FAIL"
        /\ replies[i1][1].response =
              "Failed to login: Cannot login twice at the same time."
        /\ replies[i2][1].server = "FAIL"
        /\ replies[i2][1].response = "Failed to login: Wrong password."

\* C7: a port taken from the free-port queue is put back by the janitor it
\* was given to, not before the match server has exited and never twice,
\* and it has been put back once that janitor's thread has ended.
C7_PortReturnedOnce ==
    \A j \in Janitors :
        /\ janitors[j].port_puts <= 1
        /\ janitors[j].port_puts = 1 =>
              janitors[j].state \in {"logoff", "release", "done"}
        /\ Terminated(j) => janitors[j].port_puts = 1

\* C8: under fair scheduling, once the match server of a cohort has come to
\* its end, every member of the cohort is eventually logged off by the
\* match's janitor.
C8_CohortLoggedOff ==
    \A j \in 1..MaxRequests :
        (j \in Janitors /\ janitors[j].state \notin {"start", "serving"})
          ~> (j \in Janitors
              /\ janitors[j].logoffs = Len(janitors[j].player_list))

\* C9: while every semaphore unit is held and the deque holds a cohort, the
\* matchmaker stands in acquire: no step pops an entry or starts a match;
\* and each request of that cohort is eventually sent one reply carrying the
\* port of the match started for it.
C9_BackpressureThenReply ==
    /\ [][ (pc = "acquire" /\ match_limit = 0)
           => /\ match_requests' = match_requests
              /\ Len(janitors') = Len(janitors)
              /\ pc' = "acquire" ]_vars
    /\ \A i \in 1..MaxRequests :
          (/\ pc = "acquire"
           /\ match_limit = 0
           /\ \E k \in DOMAIN match_requests : match_requests[k].identity = i)
            ~> (/\ Len(replies[i]) = 1
                /\ \E j \in Janitors :
                      /\ i \in Members(j)
                      /\ replies[i][1].server = ServerOf(j))

\* C10: whichever way MatchProcessJanitor.run ends, it has put its port
\* back once, logged off every member of its cohort once and released its
\* semaphore slot once.
C10_ReleasedOnEveryExit ==
    \A j \in Janitors :
        /\ janitors[j].port_puts <= 1
        /\ janitors[j].logoffs <= Len(janitors[j].player_list)
        /\ janitors[j].releases <= 1
        /\ Terminated(j) =>
              /\ janitors[j].port_puts = 1
              /\ janitors[j].logoffs = Len(janitors[j].player_list)
              /\ janitors[j].releases = 1

\* C11: a match whose server fails before it signals ready does not stop
\* the matchmaker: no member of its cohort is sent a success reply, every
\* member is eventually sent FAIL, and the matchmaker thread eventually
\* stands at its receive again.
C11_FailedStartAnswered ==
    /\ [](\A j \in Janitors :
            janitors[j].state \in {"bind_failed", "raised"} =>
               \A i \in Members(j) : \A r \in Range(replies[i]) :
                   r.server = "FAIL")
    /\ \A j \in 1..MaxRequests :
          (j \in Janitors /\ janitors[j].state \in {"bind_failed", "raised"})
            ~> (/\ pc = "recv"
                /\ j \in Janitors
                /\ \A i \in Members(j) :
                      /\ Len(replies[i]) = 1
                      /\ replies[i][1].server = "FAIL")

\* C12: in a step call that submits an action, the action and
\* ready_for_action_to_be_taken = true are in the dataframe before the
\* client waits; the wait ends only on a copy of the record with turn =
\* true and ready_for_action_to_be_taken = false, taken after the match
\* server has consumed every action the client submitted; and the
\* observation of the result holds the move of that action.
C12_StepSeesOwnAction ==
    \A c \in DOMAIN client :
        /\ client[c].pc = "step_wait" =>
              \/ client[c].steps = Consumed(c)
              \/ /\ client[c].steps = Consumed(c) + 1
                 /\ dataframe.players[c].ready_for_action_to_be_taken
                 /\ dataframe.players[c].action = client[c].player.action
        /\ client[c].pc \in {"finish", "send"} =>
              /\ client[c].player.turn
              /\ ~client[c].player.ready_for_action_to_be_taken
              /\ client[c].steps = Consumed(c)
              /\ Cardinality(OwnMoves(client[c].player.observation,
                                      client[c].player.number))
                    = client[c].steps
              /\ client[c].steps > 0 =>
                    \E i \in DOMAIN client[c].player.observation :
                        /\ client[c].player.observation[i]
                              = <<client[c].player.number,
                                  client[c].player.action>>
                        /\ \A k \in OwnMoves(client[c].player.observation,
                                              client[c].player.number) :
                              k <= i
        /\ (client[c].pc = "recv" /\ client[c].result.kind = "step") =>
              /\ client[c].result.observation = client[c].player.observation
              /\ client[c].result.reward
                    = client[c].player.reward_from_last_turn

C12_Witness ==
    \E c \in DOMAIN client :
        /\ client[c].pc = "finish"
        /\ client[c].steps = 1
        /\ ~client[c].terminal
        /\ client[c].player.observation
              = <<<<client[c].player.number, "b">>>>

\* C13: a client sets ready_for_action_to_be_taken only on a copy of its
\* record that shows turn = true: whenever client_app stands after the
\* initial wait or after the wait loop of a step the copy shows turn =
\* true, and a step received when the copy of ServerState is terminal
\* changes neither the record nor the dataframe.
C13_ReadyOnlyOnTurn ==
    /\ [](\A c \in DOMAIN client :
            client[c].pc \in {"recv", "finish", "send"} =>
                client[c].player.turn)
    /\ [][\A c \in DOMAIN client :
            /\ (/\ client'[c].player.ready_for_action_to_be_taken
                /\ ~client[c].player.ready_for_action_to_be_taken)
                   => /\ client[c].player.turn
                      /\ ~client[c].terminal
            /\ (/\ dataframe'.players[c].ready_for_action_to_be_taken
                /\ ~dataframe.players[c].ready_for_action_to_be_taken)
                   => client[c].player.turn
            /\ (/\ client[c].pc = "recv"
                /\ client'[c].pc = "finish")
                   => /\ client[c].terminal
                      /\ client'[c].player = client[c].player
                      /\ dataframe' = dataframe ]_vars

C13_Witness ==
    \E c \in DOMAIN client :
        /\ client[c].pc = "step_wait"
        /\ client[c].steps = 2
        /\ client[c].player.turn
        /\ client[c].player.ready_for_action_to_be_taken
        /\ dataframe.players[c].ready_for_action_to_be_taken

\* C14: in a match of two or more players under fair scheduling, a step
\* call that is pending when the match server has announced terminal
\* eventually returns to its caller with terminal = true and the winners.
C14_TerminalReachesEveryStep ==
    \A c \in 1..MaxPlayers :
        (/\ players_per_game >= 2
         /\ c \in DOMAIN client
         /\ dataframe.terminal
         /\ client[c].caller = "step")
          ~> (/\ c \in DOMAIN client
              /\ client[c].caller = "idle"
              /\ client[c].returned.kind = "step"
              /\ client[c].returned.terminal
              /\ client[c].returned.winners = Loads(dataframe.winners))

\* C15: a step result with terminal = true is sent only after
\* acknowledges_game_over = true is in the dataframe, and carries the
\* deserialized winners; a result with terminal = false carries None and
\* no acknowledgment is written before the client has seen terminal; a
\* step received when the copy of ServerState is terminal submits no
\* action and does not enter the wait loop.
C15_TerminalAcknowledged ==
    /\ [](\A c \in DOMAIN client :
            /\ \A m \in StepResults(c) :
                  IF m.terminal
                  THEN /\ dataframe.terminal
                       /\ dataframe.players[c].acknowledges_game_over
                       /\ m.winners = Loads(dataframe.winners)
                  ELSE m.winners = None
            /\ (\/ dataframe.players[c].acknowledges_game_over
                \/ client[c].player.acknowledges_game_over)
                  => client[c].terminal)
    /\ [][\A c \in DOMAIN client :
            /\ (client[c].pc = "finish" /\ client'[c].pc # "finish") =>
                  IF client[c].terminal
                  THEN /\ dataframe'.players[c].acknowledges_game_over
                       /\ client'[c].res = client[c].res
                       /\ client'[c].result.terminal
                  ELSE /\ dataframe' = dataframe
                       /\ ~client'[c].player.acknowledges_game_over
                       /\ ~client'[c].result.terminal
                       /\ client'[c].result.winners = None
            /\ (client[c].pc = "recv" /\ client[c].terminal) =>
                  /\ client'[c].steps = client[c].steps
                  /\ client'[c].pc # "step_wait"
                  /\ dataframe'.players[c] = dataframe.players[c] ]_vars

C15_Witness ==
    \E c \in DOMAIN client :
        /\ client[c].returned.kind = "step"
        /\ client[c].returned.terminal
        /\ client[c].steps > 0
        /\ client[c].res # <<>>
        /\ Head(client[c].res).kind = "step"
        /\ Head(client[c].res).terminal
        /\ Head(client[c].res).winners.list # <<>>

\* C16: once close() has returned, another close() changes nothing of the
\* adapter: no error is raised, nothing is sent, the caller is not blocked.
C16_CloseTwiceNoOp ==
    [][\A c \in DOMAIN client :
          client[c].caller = "closed" => client'[c] = client[c]]_vars

C18_PortAvailable ==
    /\ pc = "get_port" => ports_to_use # <<>>
    /\ Len(ports_to_use) >= match_limit + (IF pc = "get_port" THEN 1 ELSE 0)
    /\ \A j \in Janitors :
          janitors[j].releases = 1 => janitors[j].port_puts = 1

C18_Witness ==
    /\ pc = "get_port"
    /\ \E j \in Janitors :
          /\ janitors[j].state = "done"
          /\ ports_to_use = <<janitors[j].port>>

\* C19: a cohort is ordered oldest request first: in the popped cohort and
\* in the whitelist handed to the match, a request that arrived earlier
\* stands before one that arrived later.
C19_CohortOldestFirst ==
    /\ \A k1, k2 \in DOMAIN new_players :
          k1 < k2 => new_players[k1].identity < new_players[k2].identity
    /\ \A j \in Janitors : \A k1, k2 \in DOMAIN janitors[j].whitelist :
          k1 < k2 => Arrival(janitors[j].whitelist[k1])
                       < Arrival(janitors[j].whitelist[k2])

\* C20: the matchmaker logs in the lowercased username: every user row is
\* kept under a lowercase name, and two usernames that differ only in
\* letter case never wait or play at the same time.
C20_LowercasedBeforeLogin ==
    /\ \A u \in Usernames : database[u].exists => u = Lower(u)
    /\ \A u1, u2 \in Usernames :
          (u1 # u2 /\ Lower(u1) = Lower(u2))
            => ~(database[u1].logged_in /\ database[u2].logged_in)

\* C21 as stated: at the step in which a janitor releases its semaphore
\* slot, the port of its match stands in the free-port queue and every
\* username of its cohort is logged off.
C21_ReleaseFindsCleanState ==
    [][\A j \in DOMAIN janitors :
          janitors'[j].releases > janitors[j].releases =>
              /\ TimesQueued(janitors[j].port) > 0
              /\ \A k \in DOMAIN janitors[j].player_list :
                    ~database[janitors[j].player_list[k]].logged_in]_vars

\* C21, amended: a janitor puts its port back, then logs off every
\* username of its cohort, then releases its slot; at the step of the
\* release the port has been put back once and is in the queue or held by
\* a match started later, and every member has been logged off by this
\* janitor and is logged off or waits or plays on a later request.
C21_CleanupOrder ==
    /\ [](\A j \in Janitors :
            /\ janitors[j].logoffs > 0 => janitors[j].port_puts = 1
            /\ janitors[j].releases > 0 =>
                  /\ janitors[j].port_puts = 1
                  /\ janitors[j].logoffs = Len(janitors[j].player_list)
                  /\ janitors[j].releases = 1)
    /\ [][\A j \in DOMAIN janitors :
            /\ janitors'[j].port_puts > janitors[j].port_puts =>
                  /\ janitors[j].logoffs = 0
                  /\ janitors[j].releases = 0
                  /\ ports_to_use' = Append(ports_to_use, janitors[j].port)
            /\ janitors'[j].logoffs > janitors[j].logoffs =>
                  /\ janitors[j].port_puts = 1
                  /\ janitors[j].releases = 0
                  /\ ~database'[janitors[j].player_list
                                  [janitors[j].logoffs + 1]].logged_in
            /\ janitors'[j].releases > janitors[j].releases =>
                  /\ janitors[j].port_puts = 1
                  /\ janitors[j].logoffs = Len(janitors[j].player_list)
                  /\ match_limit' = match_limit + 1
                  /\ \/ TimesQueued(janitors[j].port) > 0
                     \/ \E later \in Holders(janitors[j].port) : later > j
                  /\ \A k \in DOMAIN janitors[j].player_list :
                        \/ ~database[janitors[j].player_list[k]].logged_in
                        \/ Places(janitors[j].player_list[k]) # {} ]_vars

C21_Witness ==
    \E j \in Janitors, later \in Janitors :
        /\ janitors[j].releases = 1
        /\ janitors[j].logoffs = Len(janitors[j].player_list)
        /\ later > j
        /\ HoldsPort(later)
        /\ janitors[later].port = janitors[j].port
        /\ janitors[later].player_list = janitors[j].player_list
        /\ database[janitors[j].player_list[1]].logged_in

\* C22: whenever the matchmaker stands at its blocking receive the deque
\* holds fewer than players_per_game entries; when a cohort is popped the
\* deque holds exactly players_per_game entries, the cohort is the whole
\* deque and the deque is empty until the next receive; with
\* players_per_game = 1 every request that is appended leads to a cohort
\* in the same turn of the loop.
C22_CohortIsWholeDeque ==
    /\ [](/\ pc = "recv" => Len(match_requests) < players_per_game
          /\ pc = "acquire" => Len(match_requests) = players_per_game
          /\ pc \in {"get_port", "wait_ready", "reply"} =>
                match_requests = <<>>
          /\ (players_per_game = 1 /\ pc = "recv") => match_requests = <<>>)
    /\ [][/\ (pc = "acquire" /\ pc' # "acquire") =>
                /\ Len(new_players') = players_per_game
                /\ Range(new_players') = Range(match_requests)
                /\ match_requests' = <<>>
          /\ (/\ players_per_game = 1
              /\ pc = "recv"
              /\ Len(match_requests') > Len(match_requests)) =>
                pc' = "acquire"
          /\ (pc = "recv" /\ login_result' \in {"Success", "NoUser"}
              /\ next_identity' # next_identity) =>
                match_requests' = Append(match_requests,
                                         issued'[next_identity]) ]_vars

C22_Witness ==
    /\ players_per_game = 2
    /\ pc = "get_port"
    /\ Len(new_players) = 2
    /\ match_requests = <<>>
    /\ next_identity = 4

====
